---------------------------- MODULE Spec2Model ----------------------------


(***************************************************************************)
(* The polling agent of markokeeffe/goproxy as a state machine.            *)
(*                                                                         *)
(* Two variants of the agent are in the repository and both are modelled:  *)
(*   "goproxy"  src/goproxy.go: every error goes to fck, which posts the   *)
(*              error to the task server and then sends on quit;           *)
(*   "service"  src/unnamed/part_001 lines 1-468: errors of an iteration   *)
(*              go to errCheckPostback (post, then send on quit), errors   *)
(*              of postJsonResponse to errCheck (print, then send on       *)
(*              quit), errors of startup to errCheckFatal.                 *)
(* The variant is fixed in the initial state.                              *)
(*                                                                         *)
(* Thread 0 is the goroutine that runs the poll loop (main in goproxy.go,  *)
(* Program.run in the service variant, together with the startup code      *)
(* before it); thread i >= 1 is the goroutine started by the i-th call of  *)
(* checkForTasks.  The network and the database are the environment: each  *)
(* call into them picks its outcome with \E.                               *)
(***************************************************************************)
EXTENDS Integers, Sequences, FiniteSets, TLC

(***************************************************************************)
(* Bounds of the model.                                                    *)
(***************************************************************************)
\* calls of checkForTasks in a run of the poller
MaxIter == 2
\* rows of a result set in the row-mapping specification
MaxRows == 2
\* nested calls fck -> postJsonResponse -> fck that fit on a goroutine stack
MaxStack == 2

(***************************************************************************)
(* Program constants.                                                      *)
(***************************************************************************)
TASK_TYPE_DB_MYSQL_QUERY == 1
TASK_TYPE_DB_MYSQL_EXEC == 2

Threads == 0 .. MaxIter
Iters == 1 .. MaxIter
Variants == {"goproxy", "service"}

(***************************************************************************)
(* Values of the environment.                                              *)
(***************************************************************************)
\* config.Url: one that parses as a URL and one that does not
GoodUrl == "http://taskserver:8888/"
BadUrl == "taskserver:8888"
\* the -key flag
ApiKeys == {"", "ABCD123"}

\* sql.RawBytes(nil): what Scan stores for a NULL, and what Update resets to
NilBytes == "<nil>"
\* a NULL cell of a result row
NULL == "<NULL>"

\* the type codes the server may send: the two known ones and two others
TaskTypes == {0, TASK_TYPE_DB_MYSQL_QUERY, TASK_TYPE_DB_MYSQL_EXEC, 99}

\* a value that stands for "no value" in a record-valued variable
None == [none |-> TRUE]

\* A task envelope as json.Unmarshal fills it: cfgOk says whether RawConfig
\* is JSON that decodes into a DBTaskConfig.
Tasks == [Type : TaskTypes, cfgOk : BOOLEAN]
\* Task{} : the zero value getPendingTask declares
ZeroTask == [Type |-> 0, cfgOk |-> FALSE]

\* Response bodies of the poll request.  raw is the text, json says whether
\* it decodes into a Task, task is the decoded envelope.
Bodies ==
    {[raw |-> "0", json |-> FALSE, task |-> ZeroTask],
     [raw |-> "0\n", json |-> FALSE, task |-> ZeroTask]}
    \cup {[raw |-> "{task}", json |-> TRUE, task |-> t] : t \in Tasks}

\* Result sets: the column names of the statement and the rows rows.Next
\* yields until it returns false.
RowsOver(n, cells, maxRows) ==
    UNION {[1 .. m -> [1 .. n -> cells]] : m \in 0 .. maxRows}
ResultSetsOver(colLists, cells, maxRows) ==
    UNION {{[cols |-> c, rows |-> r] : r \in RowsOver(Len(c), cells, maxRows)} :
           c \in colLists}

\* the database of the poller specification: a statement over one column
\* that returns no row or one row
PollResultSets == ResultSetsOver({<<"id">>}, {"1"}, 1)
\* the database of the one-iteration specification: every result set of up
\* to MaxRows rows over three column lists, one of them naming a column
\* twice, each cell a value or NULL
DataResultSets ==
    ResultSetsOver({<<"id">>, <<"id", "name">>, <<"id", "id">>},
                   {"1", NULL}, MaxRows)

(***************************************************************************)
(* Errors.  op is the call that returned the error, dyn its dynamic type.  *)
(***************************************************************************)
Err(op, dyn, msg) == [op |-> op, dyn |-> dyn, msg |-> msg]
\* the calls made by postJsonResponse
PostOps == {"json.Marshal", "http.NewRequest(POST)", "http.Post", "ReadAll(ack)"}


ErrValidate == Err("ConfigFile.Validate", "*errors.errorString", "Invalid API Key.")
ErrNewGet == Err("http.NewRequest(GET)", "*url.Error", "parse: first path segment in URL cannot contain colon")
ErrGet == Err("http.Get", "*url.Error", "Get: dial tcp: connection refused")
ErrReadBody == Err("ReadAll(body)", "*errors.errorString", "unexpected EOF")
ErrDecodeTask == Err("json.Unmarshal(task)", "*json.SyntaxError", "invalid character looking for beginning of value")
ErrDecodeConfig == Err("json.Unmarshal(config)", "*json.SyntaxError", "unexpected end of JSON input")
ErrOpen == Err("sql.Open", "*errors.errorString", "sql: unknown driver (forgotten import?)")
ErrQuery == Err("db.Query", "*mysql.MySQLError", "Error 1064: You have an error in your SQL syntax")
ErrColumns == Err("rows.Columns", "*errors.errorString", "sql: Rows are closed")
ErrScan == Err("rows.Scan", "*errors.errorString", "sql: expected destination arguments in Scan")
ErrNewPost == Err("http.NewRequest(POST)", "*url.Error", "parse: first path segment in URL cannot contain colon")
ErrPost == Err("http.Post", "*url.Error", "Post: dial tcp: connection refused")
ErrReadAck == Err("ReadAll(ack)", "*errors.errorString", "unexpected EOF")

(***************************************************************************)
(* State.                                                                  *)
(***************************************************************************)
VARIABLES
    variant,    \* which of the two programs runs
    config,     \* the global config: [Url, ApiKey]
    proc,       \* "running", or how the process ended
    quit,       \* the global quit: 0 is the nil channel, k the channel made
                \* by the k-th call of checkForTasks
    pc,         \* pc[g]: where thread g is
    depth,      \* depth[g]: calls of fck / errCheckPostback on g's stack
    posting,    \* posting[g]: the JsonResponse postJsonResponse is working on
    calls,      \* calls[g]: calls of postJsonResponse made by g so far
    firstErr,   \* firstErr[g]: the first error g handed to an error handler
    sendOn,     \* sendOn[g]: the channel g is blocked sending on, -1 if none
    reports,    \* reports[g]: what the server received from g, in order
    body,       \* body[i]: rawResponse of iteration i
    task,       \* task[i]: the task of iteration i
    conn,       \* conn[i]: "none", "open" or "closed": the *sql.DB of i
    rs,         \* rs[i]: the result set db.Query returned to i
    pos,        \* pos[i]: rows of rs[i] that rows.Next has yielded
    heap,       \* heap[i]: the maps iteration i allocated, by address
    rc,         \* rc[i]: the MapStringScan of iteration i
    response    \* response[i]: the slice of map addresses built by i

ctl == <<pc, depth, posting, calls, firstErr, proc>>
env == <<variant, config>>
net == <<reports, body, task>>
db == <<conn, rs, pos, heap, rc, response>>
vars == <<variant, config, proc, quit, pc, depth, posting, calls, firstErr, sendOn,
          reports, body, task, conn, rs, pos, heap, rc, response>>

(***************************************************************************)
(* Pure functions of the program.                                          *)
(***************************************************************************)
\* mutant: every key is accepted
ValidateAny(c) == None

\* ConfigFile.Validate: the error, or None for nil
Validate(c) == IF c.ApiKey = "" THEN ErrValidate ELSE None

\* url.Parse, as http.NewRequest and http.Get apply it to config.Url
UrlParses(u) == u # BadUrl

\* mutant: the comparison with the sentinel is missing
NoTasksNever(rawResponse) == FALSE

\* getPendingTask: string(rawResponse) == "0", the server has no task
NoTasks(rawResponse) == rawResponse = "0"

\* mutant: every task counts as a database task
isDbTaskAny(t) == TRUE

isDbTask(t) ==
    IF t.Type \in {TASK_TYPE_DB_MYSQL_QUERY, TASK_TYPE_DB_MYSQL_EXEC}
    THEN TRUE ELSE FALSE

\* a map[string]string is a function from its keys; m[k] = v
EmptyMap == [k \in {} |-> ""]
MapSet(m, k, v) == [x \in DOMAIN m \cup {k} |-> IF x = k THEN v ELSE m[x]]

\* string(*rb) for a sql.RawBytes
RawString(rb) == IF rb = NilBytes THEN "" ELSE rb

\* what rows.Scan stores in a *sql.RawBytes for a cell
ScanCell(cell) == IF cell = NULL THEN NilBytes ELSE cell

\* mutant: the column count is one short
newMapStringScanShort(columnNames) ==
    LET lenCN == Len(columnNames) IN
    [s |-> [cp |-> [k \in 1 .. lenCN |-> NilBytes],
            row |-> 1,
            colCount |-> lenCN - 1,
            colNames |-> columnNames],
     heap |-> <<EmptyMap>>]

\* newMapStringScan: the struct, its row map allocated at address 1 of a
\* fresh heap
newMapStringScan(columnNames) ==
    LET lenCN == Len(columnNames) IN
    [s |-> [cp |-> [k \in 1 .. lenCN |-> NilBytes],
            row |-> 1,
            colCount |-> lenCN,
            colNames |-> columnNames],
     heap |-> <<EmptyMap>>]

\* mutant: only a non-empty value is written to the row map
RECURSIVE UpdateLoopNonEmpty(_, _, _)
UpdateLoopNonEmpty(s, h, k) ==
    IF k > s.colCount THEN [s |-> s, heap |-> h]
    ELSE UpdateLoopNonEmpty(
            [s EXCEPT !.cp[k] = NilBytes],
            IF s.cp[k] = NilBytes THEN h
            ELSE [h EXCEPT ![s.row] = MapSet(h[s.row], s.colNames[k], RawString(s.cp[k]))],
            k + 1)

\* the loop of MapStringScan.Update from index k on: copy cp[k] into the
\* row map under the column's name, then reset cp[k]
RECURSIVE UpdateLoop(_, _, _)
UpdateLoop(s, h, k) ==
    IF k > s.colCount THEN [s |-> s, heap |-> h]
    ELSE UpdateLoop(
            [s EXCEPT !.cp[k] = NilBytes],
            [h EXCEPT ![s.row] = MapSet(h[s.row], s.colNames[k], RawString(s.cp[k]))],
            k + 1)

\* MapStringScan.Update after a successful rows.Scan of the row cells
Update(s, h, cells) ==
    UpdateLoop([s EXCEPT !.cp = [k \in 1 .. s.colCount |-> ScanCell(cells[k])]], h, 1)

\* MapStringScan.Get: the address of the row map
Get(s) == s.row

\* the Body of a success report: the slice, each element read through its
\* address when the response is marshalled
BodyOf(resp, h) == [k \in 1 .. Len(resp) |-> h[resp[k]]]

\* json.Marshal of a JsonResponse.  A nil slice is encoded as null, a slice
\* as an array of objects; an error value is encoded by its exported fields,
\* of which *errors.errorString and *json.SyntaxError have none that carry
\* the message.  Marshal returns no error for any of these.
MarshalBody(r) ==
    IF r.Type = "success"
    THEN IF Len(r.Body) = 0 THEN [json |-> "null", rows |-> <<>>]
         ELSE [json |-> "array", rows |-> r.Body]
    ELSE IF r.Body.dyn = "*mysql.MySQLError"
         THEN [json |-> "object", text |-> r.Body.msg]
         ELSE IF r.Body.dyn = "*url.Error"
              THEN [json |-> "object", text |-> r.Body.op]
              ELSE [json |-> "object", text |-> ""]
Marshal(r) == [err |-> None, payload |-> [type |-> r.Type, body |-> MarshalBody(r)]]

(***************************************************************************)
(* Control flow shared by the actions.                                     *)
(***************************************************************************)
\* thread g goes on to l, nothing went wrong
Goto(g, l) ==
    /\ pc' = [pc EXCEPT ![g] = l]
    /\ UNCHANGED <<depth, posting, calls, firstErr, proc>>

\* the first step of postJsonResponse
PostEntry == IF variant = "service" THEN "post_newreq" ELSE "post"

\* thread g calls postJsonResponse(r)
CallPost(g, r) ==
    /\ posting' = [posting EXCEPT ![g] = r]
    /\ calls' = [calls EXCEPT ![g] = @ + 1]
    /\ pc' = [pc EXCEPT ![g] = PostEntry]

\* fck(err) with err != nil: post the error to the task server, then send
\* on quit.  The call needs a stack frame: past MaxStack nested calls the
\* Go runtime ends the process with "fatal error: stack overflow".
fck(g, err) ==
    IF depth[g] >= MaxStack
    THEN /\ proc' = "stack overflow"
         /\ UNCHANGED <<pc, depth, posting, calls>>
    ELSE /\ depth' = [depth EXCEPT ![g] = @ + 1]
         /\ CallPost(g, [Type |-> "error", Body |-> err])
         /\ UNCHANGED proc

\* errCheckPostback(err) with err != nil: print, post the error, then send
errCheckPostback(g, err) ==
    IF depth[g] >= MaxStack
    THEN /\ proc' = "stack overflow"
         /\ UNCHANGED <<pc, depth, posting, calls>>
    ELSE /\ depth' = [depth EXCEPT ![g] = @ + 1]
         /\ CallPost(g, [Type |-> "error", Body |-> err])
         /\ UNCHANGED proc

\* errCheck(err) with err != nil: print, then send on quit
errCheck(g, err) ==
    /\ pc' = [pc EXCEPT ![g] = "send"]
    /\ UNCHANGED <<depth, posting, calls, proc>>

\* errCheckFatal(err) with err != nil: send on quit, then log.Fatal
errCheckFatal(g, err) ==
    /\ pc' = [pc EXCEPT ![g] = "send"]
    /\ UNCHANGED <<depth, posting, calls, proc>>

\* the handler each call site passes its error to: site is "task" for the
\* steps of an iteration, "post" for the steps of postJsonResponse,
\* "startup" for the validation in main
Handle(g, site, err) ==
    /\ firstErr' = [firstErr EXCEPT ![g] = IF @ = None THEN err ELSE @]
    /\ IF variant = "goproxy" THEN fck(g, err)
       ELSE IF site = "task" THEN errCheckPostback(g, err)
       ELSE IF site = "post" THEN errCheck(g, err)
       ELSE errCheckFatal(g, err)

\* outcomes of a request to config.Url: TRUE is a response, FALSE an error
Outcomes == IF UrlParses(config.Url) THEN BOOLEAN ELSE {FALSE}

(***************************************************************************)
(* Initial state: init() / loadConfiguration() have filled config.         *)
(***************************************************************************)
Init ==
    /\ variant \in Variants
    /\ config \in [Url : {GoodUrl, BadUrl}, ApiKey : ApiKeys]
    /\ proc = "running"
    /\ quit = 0
    /\ pc = [g \in Threads |-> IF g = 0 THEN "validate" ELSE "idle"]
    /\ depth = [g \in Threads |-> 0]
    /\ posting = [g \in Threads |-> None]
    /\ calls = [g \in Threads |-> 0]
    /\ firstErr = [g \in Threads |-> None]
    /\ sendOn = [g \in Threads |-> -1]
    /\ reports = [g \in Threads |-> <<>>]
    /\ body = [i \in Iters |-> None]
    /\ task = [i \in Iters |-> ZeroTask]
    /\ conn = [i \in Iters |-> "none"]
    /\ rs = [i \in Iters |-> None]
    /\ pos = [i \in Iters |-> 0]
    /\ heap = [i \in Iters |-> <<>>]
    /\ rc = [i \in Iters |-> None]
    /\ response = [i \in Iters |-> <<>>]

(***************************************************************************)
(* Thread 0: startup and the poll loop.                                    *)
(***************************************************************************)
\* main: err := config.Validate(); on an error the handler is called
mainValidate ==
    /\ proc = "running" /\ pc[0] = "validate"
    /\ IF Validate(config) = None
       THEN Goto(0, "check")
       ELSE Handle(0, "startup", Validate(config))
    /\ UNCHANGED <<env, quit, sendOn, net, db>>

\* checkForTasks: quit = make(chan bool); go func() {...}()
checkForTasks ==
    /\ proc = "running" /\ pc[0] = "check"
    /\ quit' = quit + 1
    /\ pc' = [pc EXCEPT ![0] = IF quit = 0 THEN "ticker" ELSE "wait",
                        ![quit + 1] = IF variant = "service" THEN "get_newreq" ELSE "get"]
    /\ UNCHANGED <<depth, posting, calls, firstErr, proc, env, sendOn, net, db>>

\* ticker := time.NewTicker(...)
NewTicker ==
    /\ proc = "running" /\ pc[0] = "ticker"
    /\ Goto(0, "wait")
    /\ UNCHANGED <<env, quit, sendOn, net, db>>

\* case <-ticker.C: the loop goes on to call checkForTasks
TickerFire ==
    /\ proc = "running" /\ pc[0] = "wait"
    /\ quit < MaxIter
    /\ Goto(0, "check")
    /\ UNCHANGED <<env, quit, sendOn, net, db>>

(***************************************************************************)
(* getPendingTask, in the goroutine of iteration i.                        *)
(***************************************************************************)
\* service variant: req, err := http.NewRequest("GET", config.Url, nil)
NewRequestGet(i) ==
    /\ proc = "running" /\ pc[i] = "get_newreq"
    /\ IF UrlParses(config.Url)
       THEN Goto(i, "get")
       ELSE Handle(i, "task", ErrNewGet)
    /\ UNCHANGED <<env, quit, sendOn, net, db>>

\* resp, err := http.Get(config.Url)  /  client.Do(req)
httpGet(i) ==
    /\ proc = "running" /\ pc[i] = "get"
    /\ \E ok \in Outcomes :
          IF ok THEN Goto(i, "read") ELSE Handle(i, "task", ErrGet)
    /\ UNCHANGED <<env, quit, sendOn, net, db>>

\* rawResponse, err := ioutil.ReadAll(resp.Body)
ReadBody(i) ==
    /\ proc = "running" /\ pc[i] = "read"
    /\ \/ \E b \in Bodies :
             /\ body' = [body EXCEPT ![i] = b]
             /\ Goto(i, "decode")
       \/ /\ Handle(i, "task", ErrReadBody)
          /\ UNCHANGED body
    /\ UNCHANGED <<env, quit, sendOn, reports, task, db>>

\* mutant: the config is decoded together with the envelope
DecodeTaskEager(i) ==
    /\ proc = "running" /\ pc[i] = "decode"
    /\ IF NoTasks(body[i].raw)
       THEN Goto(i, "done") /\ UNCHANGED task
       ELSE IF body[i].json
            THEN /\ task' = [task EXCEPT ![i] = body[i].task]
                 /\ IF body[i].task.cfgOk
                    THEN Goto(i, "dispatch")
                    ELSE Handle(i, "task", ErrDecodeConfig)
            ELSE Handle(i, "task", ErrDecodeTask) /\ UNCHANGED task
    /\ UNCHANGED <<env, quit, sendOn, reports, body, db>>

\* mutant: the decoded task is kept in one variable of the package, as
\* config and quit are
DecodeTaskShared(i) ==
    /\ proc = "running" /\ pc[i] = "decode"
    /\ IF NoTasks(body[i].raw)
       THEN Goto(i, "done") /\ UNCHANGED task
       ELSE IF body[i].json
            THEN /\ task' = [j \in Iters |-> body[i].task]
                 /\ Goto(i, "dispatch")
            ELSE Handle(i, "task", ErrDecodeTask) /\ UNCHANGED task
    /\ UNCHANGED <<env, quit, sendOn, reports, body, db>>

\* if string(rawResponse) == "0" { return task, errors.New("No Tasks") }
\* err = json.Unmarshal(rawResponse, &task); return task, nil
\* and in the caller: if err != nil { fmt.Println(err); return }
DecodeTask(i) ==
    /\ proc = "running" /\ pc[i] = "decode"
    /\ IF NoTasks(body[i].raw)
       THEN Goto(i, "done") /\ UNCHANGED task
       ELSE IF body[i].json
            THEN /\ task' = [task EXCEPT ![i] = body[i].task]
                 /\ Goto(i, "dispatch")
            ELSE Handle(i, "task", ErrDecodeTask) /\ UNCHANGED task
    /\ UNCHANGED <<env, quit, sendOn, reports, body, db>>

\* mutant: processDbTask is called without the type check
DispatchUnchecked(i) ==
    /\ proc = "running" /\ pc[i] = "dispatch"
    /\ Goto(i, "initdb")
    /\ UNCHANGED <<env, quit, sendOn, net, db>>

\* if isDbTask(task) { processDbTask(task) }; the goroutine returns otherwise
Dispatch(i) ==
    /\ proc = "running" /\ pc[i] = "dispatch"
    /\ IF isDbTask(task[i]) THEN Goto(i, "initdb") ELSE Goto(i, "done")
    /\ UNCHANGED <<env, quit, sendOn, net, db>>

(***************************************************************************)
(* processDbTask, in the goroutine of iteration i.                         *)
(***************************************************************************)
\* initDbConnection: the switch on task.Type; for the two database types
\* getDbTaskConfig decodes task.RawConfig, any other type panics
initDbConnection(i) ==
    /\ proc = "running" /\ pc[i] = "initdb"
    /\ IF task[i].Type \in {TASK_TYPE_DB_MYSQL_QUERY, TASK_TYPE_DB_MYSQL_EXEC}
       THEN IF task[i].cfgOk
            THEN Goto(i, "open")
            ELSE Handle(i, "task", ErrDecodeConfig)
       ELSE /\ proc' = "panic"
            /\ UNCHANGED <<pc, depth, posting, calls, firstErr>>
    /\ UNCHANGED <<env, quit, sendOn, net, db>>

\* db, err := sql.Open(config.Type, config.Dsn), then in processDbTask
\* db.SetMaxIdleConns(100) and defer db.Close()
sqlOpen(i) ==
    /\ proc = "running" /\ pc[i] = "open"
    /\ \/ /\ conn' = [conn EXCEPT ![i] = "open"]
          /\ Goto(i, "query")
       \/ /\ Handle(i, "task", ErrOpen)
          /\ UNCHANGED conn
    /\ UNCHANGED <<env, quit, sendOn, net, rs, pos, heap, rc, response>>

\* rows, err := db.Query(task.Payload); the database answers with one of
\* the result sets of RS or with an error
dbQuery(i, RS) ==
    /\ proc = "running" /\ pc[i] = "query"
    /\ \/ \E r \in RS :
             /\ rs' = [rs EXCEPT ![i] = r]
             /\ Goto(i, "columns")
       \/ /\ Handle(i, "task", ErrQuery)
          /\ UNCHANGED rs
    /\ UNCHANGED <<env, quit, sendOn, net, conn, pos, heap, rc, response>>

\* columnNames, err := rows.Columns(); var response []map[string]string;
\* rc := newMapStringScan(columnNames)
rowsColumns(i) ==
    /\ proc = "running" /\ pc[i] = "columns"
    /\ \/ /\ rc' = [rc EXCEPT ![i] = newMapStringScan(rs[i].cols).s]
          /\ heap' = [heap EXCEPT ![i] = newMapStringScan(rs[i].cols).heap]
          /\ response' = [response EXCEPT ![i] = <<>>]
          /\ Goto(i, "next")
       \/ /\ Handle(i, "task", ErrColumns)
          /\ UNCHANGED <<rc, heap, response>>
    /\ UNCHANGED <<env, quit, sendOn, net, conn, rs, pos>>

\* for rows.Next() {...}; after the loop rows.Close() and
\* postJsonResponse(JsonResponse{Type: "success", Body: response})
rowsNext(i) ==
    /\ proc = "running" /\ pc[i] = "next"
    /\ IF pos[i] < Len(rs[i].rows)
       THEN /\ pos' = [pos EXCEPT ![i] = @ + 1]
            /\ Goto(i, "update")
       ELSE /\ CallPost(i, [Type |-> "success", Body |-> BodyOf(response[i], heap[i])])
            /\ UNCHANGED <<pos, depth, firstErr, proc>>
    /\ UNCHANGED <<env, quit, sendOn, net, conn, rs, heap, rc, response>>

\* err := rc.Update(rows); cv := rc.Get(); response = append(response, cv)
rcUpdate(i) ==
    /\ proc = "running" /\ pc[i] = "update"
    /\ \/ LET u == Update(rc[i], heap[i], rs[i].rows[pos[i]]) IN
             /\ rc' = [rc EXCEPT ![i] = u.s]
             /\ heap' = [heap EXCEPT ![i] = u.heap]
             /\ response' = [response EXCEPT ![i] = Append(@, Get(u.s))]
             /\ Goto(i, "next")
       \/ /\ Handle(i, "task", ErrScan)
          /\ UNCHANGED <<rc, heap, response>>
    /\ UNCHANGED <<env, quit, sendOn, net, conn, rs, pos>>

\* the deferred db.Close() when processDbTask returns
dbClose(i) ==
    /\ proc = "running" /\ pc[i] = "close"
    /\ conn' = [conn EXCEPT ![i] = "closed"]
    /\ Goto(i, "done")
    /\ UNCHANGED <<env, quit, sendOn, net, rs, pos, heap, rc, response>>

(***************************************************************************)
(* postJsonResponse and the send on quit, in any thread g.                 *)
(***************************************************************************)
\* service variant: req, err := http.NewRequest("POST", config.Url, ...)
NewRequestPost(g) ==
    /\ proc = "running" /\ pc[g] = "post_newreq"
    /\ IF UrlParses(config.Url)
       THEN Goto(g, "post")
       ELSE Handle(g, "post", ErrNewPost)
    /\ UNCHANGED <<env, quit, sendOn, net, db>>

\* payload, err := json.Marshal(response);
\* resp, err := http.Post(config.Url, ..., payload)  /  client.Do(req):
\* without an error the server has received the payload
httpPost(g) ==
    /\ proc = "running" /\ pc[g] = "post"
    /\ IF Marshal(posting[g]).err # None
       THEN Handle(g, "post", Marshal(posting[g]).err) /\ UNCHANGED reports
       ELSE \E ok \in Outcomes :
               IF ok
               THEN /\ reports' = [reports EXCEPT ![g] = Append(@, Marshal(posting[g]).payload)]
                    /\ Goto(g, "ack")
               ELSE /\ Handle(g, "post", ErrPost)
                    /\ UNCHANGED reports
    /\ UNCHANGED <<env, quit, sendOn, body, task, db>>

\* mutant: after the error report of a failed row scan the handler returns
\* and the row loop goes on
ReadAckLoopGoesOn(g) ==
    /\ proc = "running" /\ pc[g] = "ack"
    /\ \/ Goto(g, IF depth[g] = 0 THEN "close"
                  ELSE IF firstErr[g].op = "rows.Scan" THEN "next"
                  ELSE "send")
       \/ Handle(g, "post", ErrReadAck)
    /\ UNCHANGED <<env, quit, sendOn, net, db>>

\* contents, err := ioutil.ReadAll(resp.Body); fmt.Println; return.
\* A success report was posted by processDbTask, which returns in turn and
\* runs its deferred call; an error report was posted by the error handler,
\* which goes on to its send.
ReadAck(g) ==
    /\ proc = "running" /\ pc[g] = "ack"
    /\ \/ Goto(g, IF depth[g] = 0 THEN "close" ELSE "send")
       \/ Handle(g, "post", ErrReadAck)
    /\ UNCHANGED <<env, quit, sendOn, net, db>>

\* mutant: the send completes (as on a channel with a receiver or a buffer)
\* and the goroutine goes on with the statement after the failed call
quitSendCompletes(g) ==
    /\ proc = "running" /\ pc[g] = "send"
    /\ \E c \in (IF g = 0 THEN {quit} ELSE g .. quit) :
          sendOn' = [sendOn EXCEPT ![g] = c]
    /\ Goto(g, IF firstErr[g].op = "http.Get" THEN "read"
               ELSE IF firstErr[g].op = "sql.Open" THEN "query"
               ELSE "done")
    /\ UNCHANGED <<env, quit, net, db>>

\* quit <- true.  Thread 0 reads the quit it wrote itself.  The goroutine
\* of iteration i reads the global without synchronisation while thread 0
\* may assign it again: it sees the channel of its own checkForTasks call
\* or one assigned since.  No statement of the program receives from quit,
\* and quit is unbuffered (or nil), so the send never completes.
quitSend(g) ==
    /\ proc = "running" /\ pc[g] = "send"
    /\ \E c \in (IF g = 0 THEN {quit} ELSE g .. quit) :
          sendOn' = [sendOn EXCEPT ![g] = c]
    /\ Goto(g, "blocked")
    /\ UNCHANGED <<env, quit, net, db>>

\* Thread 0 blocked in its send with no goroutine left that could run: the
\* Go runtime ends the process with "fatal error: all goroutines are asleep
\* - deadlock!" (exit status 2).  Thread 0 blocks only at startup, before
\* the first checkForTasks; in its loop it waits on the ticker.
allAsleep ==
    /\ proc = "running" /\ pc[0] = "blocked"
    /\ \A i \in Iters : pc[i] \in {"idle", "done", "blocked"}
    /\ proc' = "deadlock"
    /\ UNCHANGED <<pc, depth, posting, calls, firstErr, env, quit, sendOn, net, db>>

\* After a POST that the server answered, the connection kept alive for
\* reuse has a goroutine waiting in the network poller, and the runtime
\* reports no deadlock for as long as the server keeps that connection.
NetworkWaiter == reports[0] # <<>>

(***************************************************************************)
(* Specifications.                                                         *)
(***************************************************************************)
\* the steps of the goroutine of iteration i against the database RS
IterStep(i, RS) ==
    \/ NewRequestGet(i)
    \/ httpGet(i)
    \/ ReadBody(i)
    \/ DecodeTask(i)
    \/ Dispatch(i)
    \/ initDbConnection(i)
    \/ sqlOpen(i)
    \/ dbQuery(i, RS)
    \/ rowsColumns(i)
    \/ rowsNext(i)
    \/ rcUpdate(i)
    \/ dbClose(i)
    \/ NewRequestPost(i)
    \/ httpPost(i)
    \/ ReadAck(i)
    \/ quitSend(i)

\* The poller: up to MaxIter overlapping iterations against the database
\* PollResultSets.
Next ==
    \/ mainValidate
    \/ checkForTasks
    \/ NewTicker
    \/ TickerFire
    \/ \E i \in Iters : NewRequestGet(i)
    \/ \E i \in Iters : httpGet(i)
    \/ \E i \in Iters : ReadBody(i)
    \/ \E i \in Iters : DecodeTask(i)
    \/ \E i \in Iters : Dispatch(i)
    \/ \E i \in Iters : initDbConnection(i)
    \/ \E i \in Iters : sqlOpen(i)
    \/ \E i \in Iters : dbQuery(i, PollResultSets)
    \/ \E i \in Iters : rowsColumns(i)
    \/ \E i \in Iters : rowsNext(i)
    \/ \E i \in Iters : rcUpdate(i)
    \/ \E i \in Iters : dbClose(i)
    \/ \E g \in Threads : NewRequestPost(g)
    \/ \E g \in Threads : httpPost(g)
    \/ \E g \in Threads : ReadAck(g)
    \/ \E g \in Threads : quitSend(g)
    \/ allAsleep

Spec == Init /\ [][Next]_vars

\* One iteration, the one main starts immediately, against a database that
\* may return any result set of DataResultSets.
NextIter ==
    \/ mainValidate
    \/ checkForTasks
    \/ NewTicker
    \/ NewRequestGet(1)
    \/ httpGet(1)
    \/ ReadBody(1)
    \/ DecodeTask(1)
    \/ Dispatch(1)
    \/ initDbConnection(1)
    \/ sqlOpen(1)
    \/ dbQuery(1, DataResultSets)
    \/ rowsColumns(1)
    \/ rowsNext(1)
    \/ rcUpdate(1)
    \/ dbClose(1)
    \/ \E g \in {0, 1} : NewRequestPost(g)
    \/ \E g \in {0, 1} : httpPost(g)
    \/ \E g \in {0, 1} : ReadAck(g)
    \/ \E g \in {0, 1} : quitSend(g)
    \/ allAsleep

SpecIter == Init /\ [][NextIter]_vars

\* The Go scheduler runs every goroutine that can run, and every call into
\* the network or the database returns: each thread's steps are weakly fair.
\* The runtime is sure to report the deadlock only when nothing waits in
\* the network poller.
FairSpecIter ==
    /\ SpecIter
    /\ WF_vars(mainValidate \/ checkForTasks \/ NewTicker)
    /\ WF_vars(NewRequestPost(0) \/ httpPost(0) \/ ReadAck(0) \/ quitSend(0))
    /\ WF_vars(IterStep(1, DataResultSets))
    /\ WF_vars(allAsleep /\ ~NetworkWaiter)

\* The poller under the same scheduling: thread 0 runs when it can, the
\* ticker fires, and every goroutine that can run does.
FairSpec ==
    /\ Spec
    /\ WF_vars(mainValidate \/ checkForTasks \/ NewTicker \/ TickerFire)
    /\ WF_vars(NewRequestPost(0) \/ httpPost(0) \/ ReadAck(0) \/ quitSend(0))
    /\ \A i \in Iters : WF_vars(IterStep(i, PollResultSets))
    /\ WF_vars(allAsleep /\ ~NetworkWaiter)

(***************************************************************************)
(* Vocabulary of the properties.                                           *)
(***************************************************************************)
\* the string a cell is reported as
Stringify(cell) == IF cell = NULL THEN "" ELSE cell
\* the set of the elements of a sequence
Range(seq) == {seq[k] : k \in 1 .. Len(seq)}
\* the mapping a row stands for: each column name to the string of its
\* cell (the last one, when a name occurs more than once)
RowMap(cols, cells) ==
    [name \in Range(cols) |->
        Stringify(cells[CHOOSE c \in 1 .. Len(cols) :
                          /\ cols[c] = name
                          /\ \A d \in 1 .. Len(cols) : cols[d] = name => d <= c])]
Unique(seq) == \A a, b \in 1 .. Len(seq) : seq[a] = seq[b] => a = b
\* the reports of a type the server received from thread g
Received(g, type) == SelectSeq(reports[g], LAMBDA r : r.type = type)
\* iteration i has been started and its goroutine has not returned
Running(i) == pc[i] \notin {"idle", "done"}
\* iteration i is executing: started, not returned and not parked on quit
InFlight(i) == pc[i] \notin {"idle", "done", "blocked"}
\* the server answered iteration i with a task of a type outside {1, 2}
UnknownType(i) ==
    /\ body[i] # None
    /\ body[i].json
    /\ body[i].task.Type \notin {TASK_TYPE_DB_MYSQL_QUERY, TASK_TYPE_DB_MYSQL_EXEC}
\* the first error of iteration i came from opening the connection or from
\* executing the statement
DbFailed(i) == firstErr[i] # None /\ firstErr[i].op \in {"sql.Open", "db.Query"}

(***************************************************************************)
(* C1: for a QUERY task whose statement returns rows r1..rM, the body of   *)
(* the success report is a sequence whose j-th entry holds the stringified *)
(* column values of row rj, for every j in 1..M.                           *)
(***************************************************************************)
C1_EachEntryItsOwnRow ==
    \A i \in Iters : \A k \in 1 .. Len(reports[i]) :
        (reports[i][k].type = "success" /\ task[i].Type = TASK_TYPE_DB_MYSQL_QUERY) =>
            /\ Len(reports[i][k].body.rows) = Len(rs[i].rows)
            /\ \A j \in 1 .. Len(rs[i].rows) :
                  reports[i][k].body.rows[j] = RowMap(rs[i].cols, rs[i].rows[j])

(***************************************************************************)
(* C2: a task whose type code is outside {1,2} produces an error-type      *)
(* report, never opens a database connection, and the process keeps        *)
(* running: once its goroutine has returned, the server has received an    *)
(* error report from it.                                                   *)
(***************************************************************************)
C2_UnknownTypeReported ==
    \A i \in Iters :
        UnknownType(i) =>
            /\ conn[i] = "none"
            /\ proc = "running"
            /\ pc[i] = "done" => Len(Received(i, "error")) >= 1

(***************************************************************************)
(* C3: no error that arises inside an iteration terminates or crashes the  *)
(* process: once the startup validation has passed, the process is running *)
(* in every reachable state.                                               *)
(***************************************************************************)
C3_ProcessKeepsRunning == Validate(config) = None => proc = "running"

(***************************************************************************)
(* C4: a failure of a step of postJsonResponse never causes another call   *)
(* of postJsonResponse: no iteration ever posts a report of an error that  *)
(* one of the calls of postJsonResponse returned.                          *)
(***************************************************************************)
C4_NoReportOfAReportFailure ==
    \A g \in Iters :
        (posting[g] # None /\ posting[g].Type = "error") =>
            posting[g].Body.op \notin PostOps

(***************************************************************************)
(* C5: every iteration that starts eventually ends: as long as the process *)
(* runs, its goroutine eventually returns, also when a step fails.         *)
(***************************************************************************)
C5_IterationEnds ==
    \A i \in Iters : (pc[i] # "idle") ~> (pc[i] = "done" \/ proc # "running")

(***************************************************************************)
(* C6: a database connection opened by an iteration is eventually closed   *)
(* as long as the process runs, when the task succeeds and when a later    *)
(* step fails.                                                             *)
(***************************************************************************)
C6_ConnectionClosed ==
    \A i \in Iters : (conn[i] = "open") ~> (conn[i] = "closed" \/ proc # "running")

(***************************************************************************)
(* C7: when opening the connection or executing the statement fails, the   *)
(* iteration makes exactly one report, of type error, the server receives  *)
(* no second one, and the poll loop can still start the next iteration.    *)
(***************************************************************************)
C7_ExactlyOneErrorReport ==
    \A i \in Iters :
        DbFailed(i) =>
            /\ calls[i] = 1
            /\ Len(reports[i]) <= 1
            /\ Len(Received(i, "success")) = 0
            /\ proc = "running"
            /\ pc[0] \in {"check", "ticker", "wait"}

(***************************************************************************)
(* C8: at any instant at most one task execution is in flight.             *)
(***************************************************************************)
C8_SingleFlight == Cardinality({i \in Iters : InFlight(i)}) <= 1

(***************************************************************************)
(* C9: if the fetch response body is exactly "0", the iteration ends as a  *)
(* no-task outcome: no call of postJsonResponse, nothing received by the   *)
(* server, no database connection, and the goroutine returns at the step   *)
(* that compares the body.                                                 *)
(***************************************************************************)
C9_NoTaskOutcome ==
    \A i \in Iters :
        (body[i] # None /\ body[i].raw = "0") =>
            /\ pc[i] \in {"decode", "done"}
            /\ calls[i] = 0
            /\ reports[i] = <<>>
            /\ firstErr[i] = None
            /\ conn[i] = "none"

C9_Witness ==
    \E i \in Iters : body[i] # None /\ body[i].raw = "0" /\ pc[i] = "done"

(***************************************************************************)
(* C10: for a result with N uniquely named columns and M >= 0 rows, the    *)
(* body of the success report has exactly M entries, each a mapping whose  *)
(* key set is exactly the N column names.  (json.Marshal writes the nil    *)
(* slice of M = 0 as null; it is read here as the sequence of no entry.)   *)
(***************************************************************************)
C10_EntriesAndKeys ==
    \A i \in Iters : \A k \in 1 .. Len(reports[i]) :
        (reports[i][k].type = "success" /\ Unique(rs[i].cols)) =>
            /\ Len(reports[i][k].body.rows) = Len(rs[i].rows)
            /\ \A j \in 1 .. Len(reports[i][k].body.rows) :
                  /\ DOMAIN reports[i][k].body.rows[j] = Range(rs[i].cols)
                  /\ Cardinality(DOMAIN reports[i][k].body.rows[j]) = Len(rs[i].cols)

C10_Witness ==
    \E i \in Iters :
        /\ Len(Received(i, "success")) = 1
        /\ Len(rs[i].cols) = 2 /\ Unique(rs[i].cols)
        /\ Len(rs[i].rows) = 2
        /\ Len(Received(i, "success")[1].body.rows) = 2

\* the columns of row k of the result set of iteration i whose cell is NULL
\* and whose name no later column of the row carries
NullColumns(i, k) ==
    {c \in 1 .. Len(rs[i].cols) :
        /\ rs[i].rows[k][c] = NULL
        /\ \A d \in (c + 1) .. Len(rs[i].cols) : rs[i].cols[d] # rs[i].cols[c]}

\* the row map of iteration i, as rc.Get() hands it out
RowNow(i) == heap[i][Get(rc[i])]

C12_StartupFailureEndsProcess ==
    (config.ApiKey = "") ~> (proc # "running" /\ quit = 0)

\* C13: with an empty API key checkForTasks is never called (quit is never
\* made, no goroutine of an iteration exists, nothing is fetched) and
\* thread 0 never gets to create the ticker or to wait on it.
C13_NoPollWithoutKey ==
    config.ApiKey = "" =>
        /\ quit = 0
        /\ pc[0] \notin {"check", "ticker", "wait"}
        /\ \A i \in Iters : pc[i] = "idle" /\ body[i] = None

\* C13's case: the key is empty and startup has handled the failed
\* validation, up to the send of its error handler.
C13_Witness ==
    /\ config.ApiKey = ""
    /\ firstErr[0] = ErrValidate
    /\ pc[0] = "blocked"

\* C14: after a successful startup every call of checkForTasks that is due
\* (the immediate one, and the one after each tick) is made and starts the
\* goroutine of a new iteration, whatever the earlier iterations do.
C14_EveryTickStartsAnIteration ==
    \A k \in Iters :
        (Validate(config) = None /\ pc[0] = "check" /\ quit = k - 1) ~> (pc[k] # "idle")

\* C15: an error report the server has just received has type "error" and
\* carries, as its body, the message of the error it reports.
C15_ErrorReportCarriesMessage ==
    \A g \in Threads :
        (pc[g] = "ack" /\ posting[g].Type = "error") =>
            LET rep == reports[g][Len(reports[g])] IN
            /\ rep.type = "error"
            /\ rep.body.text = posting[g].Body.msg

\* C16: when a later iteration has opened its connection, every earlier
\* iteration that opened one has closed it: no two are open at once.
C16_CloseBeforeNextOpen ==
    \A i \in Iters : \A j \in Iters :
        (i < j /\ conn[j] # "none") => conn[i] # "open"

\* iteration i is at or past the type check of its task
PastFetch(i) ==
    \/ pc[i] \in {"dispatch", "initdb", "open", "query", "columns", "next", "update", "close"}
    \/ conn[i] # "none"
    \/ rs[i] # None
\* iteration i is in processDbTask
PastTypeCheck(i) ==
    \/ pc[i] \in {"initdb", "open", "query", "columns", "next", "update", "close"}
    \/ conn[i] # "none"
    \/ rs[i] # None
\* the fetch of iteration i has been made: it returned a body, or failed
FetchMade(i) ==
    \/ body[i] # None
    \/ firstErr[i] # None /\ firstErr[i].op \in {"http.Get", "ReadAll(body)"}

\* C17: the steps of one iteration are ordered.  An iteration at or past
\* the type check holds the task its fetch returned; one in processDbTask
\* holds a task the type check accepted; a statement has been executed only
\* on an opened connection; a success report is posted only when every row
\* of the result has been read; the server receives a report of the
\* iteration only after the iteration's fetch.
C17_StepsInOrder ==
    \A i \in Iters :
        /\ PastFetch(i) =>
              body[i] # None /\ body[i].json /\ task[i] = body[i].task
        /\ PastTypeCheck(i) => isDbTask(task[i])
        /\ rs[i] # None => conn[i] # "none"
        /\ (posting[i] # None /\ posting[i].Type = "success") =>
              /\ rs[i] # None
              /\ pos[i] = Len(rs[i].rows)
              /\ Len(posting[i].Body) = Len(rs[i].rows)
        /\ reports[i] # <<>> => FetchMade(i)

\* C17's case: an iteration went through every step, read MaxRows rows and
\* its success report reached the server.
C17_Witness ==
    /\ pc[1] = "done"
    /\ conn[1] = "closed"
    /\ pos[1] = MaxRows
    /\ Received(1, "success") # <<>>

\* getDbTaskConfig has been called in iteration i: its json.Unmarshal
\* failed, or the iteration is at a step that follows it
ConfigDecoded(i) ==
    \/ pc[i] \in {"open", "query", "columns", "next", "update", "close"}
    \/ conn[i] # "none"
    \/ rs[i] # None
    \/ /\ firstErr[i] # None
       /\ firstErr[i].op \in {"json.Unmarshal(config)", "sql.Open", "db.Query",
                              "rows.Columns", "rows.Scan"}

\* C18: the config of a task is decoded only for a task the iteration has
\* fetched and whose type is 1 or 2; for a task of any other type it is
\* never decoded, so an undecodable config of such a task is no error.
C18_ConfigDecodedOnlyForDbTypes ==
    \A i \in Iters :
        /\ ConfigDecoded(i) =>
              /\ body[i] # None /\ body[i].json /\ task[i] = body[i].task
              /\ task[i].Type \in {TASK_TYPE_DB_MYSQL_QUERY, TASK_TYPE_DB_MYSQL_EXEC}
        /\ UnknownType(i) => ~ConfigDecoded(i)

\* C18's case: the config of a fetched task of type 2 has been decoded and
\* found malformed.
C18_Witness ==
    /\ firstErr[1] = ErrDecodeConfig
    /\ task[1].Type = TASK_TYPE_DB_MYSQL_EXEC
    /\ ~task[1].cfgOk

\* C19: a task of type EXEC is not executed through the row-returning
\* path: it is never handed a result set and never at the steps that read
\* columns and rows.
C19_ExecIsNotQueried ==
    \A i \in Iters :
        task[i].Type = TASK_TYPE_DB_MYSQL_EXEC =>
            /\ rs[i] = None
            /\ pc[i] \notin {"columns", "next", "update"}

\* what the goroutine of iteration j holds of its task and its rows
Locals(j) == <<body[j], task[j], rs[j], pos[j], rc[j], heap[j], response[j]>>

\* C20: a step of the goroutine of one iteration leaves the task and the
\* rows of every other iteration as they are, and the success report of an
\* iteration is built from that iteration's own row slice and maps.
C20_IterationsShareNothing ==
    [][\A i \in Iters :
          IterStep(i, PollResultSets) =>
              /\ \A j \in Iters \ {i} : Locals(j)' = Locals(j)
              /\ (posting'[i] # posting[i] /\ posting'[i].Type = "success") =>
                    posting'[i].Body = BodyOf(response[i], heap[i])]_vars

\* C20's case: two iterations overlap, each past its row loop, holding
\* different tasks and different rows.
C20_Witness ==
    /\ pc[1] = "next" /\ pos[1] = Len(rs[1].rows)
    /\ pc[2] = "next" /\ pos[2] = Len(rs[2].rows)
    /\ task[1] # task[2]
    /\ response[1] # response[2]

\* C21: initDbConnection is called only with a task of type 1 or 2, and
\* the process never ends with the panic of its default branch.
C21_PanicUnreachable ==
    /\ proc # "panic"
    /\ \A i \in Iters :
          pc[i] = "initdb" =>
              task[i].Type \in {TASK_TYPE_DB_MYSQL_QUERY, TASK_TYPE_DB_MYSQL_EXEC}

\* C21's case: initDbConnection has been called, for a task of type 1, and
\* has returned.
C21_Witness ==
    /\ pc[1] = "open"
    /\ task[1].Type = TASK_TYPE_DB_MYSQL_QUERY

\* C22: a thread that has reached the send of an error handler stays in
\* it; and the statements that would use the result of a failed call have
\* not been executed: no body was read after a failed request, no
\* connection exists and no statement was executed after a failed open.
C22_NothingAfterTheSend ==
    /\ \A g \in Threads : sendOn[g] # -1 => pc[g] = "blocked"
    /\ \A i \in Iters :
          /\ (firstErr[i] # None /\ firstErr[i].op = "http.Get") => body[i] = None
          /\ (firstErr[i] # None /\ firstErr[i].op = "sql.Open") =>
                conn[i] = "none" /\ rs[i] = None

\* C22's case: sql.Open failed in an iteration and its error handler has
\* reached the send.
C22_Witness ==
    /\ firstErr[1] = ErrOpen
    /\ pc[1] = "blocked"
    /\ sendOn[1] = 1

\* C23: in the reports the server received from one iteration no success
\* report follows an error report, and an iteration that has handed an
\* error to a handler is not posting a success report.
C23_NoSuccessAfterError ==
    \A i \in Iters :
        /\ \A k \in 1 .. Len(reports[i]) : \A l \in 1 .. Len(reports[i]) :
              (k < l /\ reports[i][k].type = "error") => reports[i][l].type # "success"
        /\ (firstErr[i] # None /\ firstErr[i].op \notin PostOps) =>
              (posting[i] = None \/ posting[i].Type # "success")

\* C23's case: a row scan failed after the first row, the error report
\* reached the server and the handler is in its send.
C23_Witness ==
    /\ firstErr[1] = ErrScan
    /\ pos[1] >= 1
    /\ Received(1, "error") # <<>>
    /\ pc[1] = "blocked"

\* C24: an iteration in the send of an error handler sends on the channel
\* that the checkForTasks call which started it made.
C24_SendsOnItsOwnChannel ==
    \A i \in Iters : sendOn[i] # -1 => sendOn[i] = i

=============================================================================
